---- MODULE Spec2Model ----
(***************************************************************************)
(* AntiGravity Crypto Hunter: the capital ledger (trade_simulator.py), the *)
(* arbitrage detector (arbitrage_detector.py), the price fetcher           *)
(* (price_fetcher.py) and the control loop with its web control surface    *)
(* (monitor.py, web_app.py).                                               *)
(*                                                                         *)
(* Numbers are fixed-point integers:                                       *)
(*   money     in thousandths of a dollar (MoneyScale units per USD), so   *)
(*             that round(x, 2) is a real rounding (to a multiple of 10);  *)
(*   prices    in cents;                                                   *)
(*   percents  in millionths of a percent (PctScale units per 1%), so that *)
(*             round(x, 4) is a real rounding (to a multiple of 100);      *)
(*   sentiment scores in hundredths, risk multipliers in hundredths.       *)
(* Float arithmetic of the source is exact to more digits than these; what *)
(* the model keeps is the difference between a value and its rounding.     *)
(***************************************************************************)
EXTENDS Integers, Sequences, FiniteSets, TLC

VARIABLES
    \* ---- TradeSimulator (trade_simulator.py) ----
    capital,          \* self.capital
    initial_capital,  \* self.initial_capital
    trade_history,    \* self.trade_history
    store,            \* the file LOG.TRADES_FILE
    ctor,             \* outcome of the last TradeSimulator(...) construction
    op,               \* the ledger operation that made the last step
    result,           \* what that operation returned
    call,             \* the arguments and the sizing of the last execute_simulation
    \* ---- AntiGravityBot and the web control surface (monitor.py, web_app.py) ----
    running,          \* bot_instance.running
    cycle_count,      \* bot_instance.cycle_count
    thr,              \* the threads start_bot has started: where each one is in run()
    \* ---- PriceFetcher._safe_get (price_fetcher.py) ----
    elapsed,          \* time.time() - self._last_call_time, in seconds, kept up to Horizon
    since_issue,      \* seconds since the last session.get was issued (Never: none yet)
    last_gap,         \* since_issue as it was when the last session.get was issued
    sg,               \* the _safe_get call in progress
    ret,              \* what the last call returned
    \* ---- PriceFetcher.get_all_exchange_prices (price_fetcher.py) ----
    pf,               \* the get_all_exchange_prices call in progress
    quotes,           \* the price map the last call returned
    prov,             \* the path that built it: "real", "synthetic" or "last_resort"
    real_seen,        \* the last price map returned from real quotes
    \* ---- ArbitrageDetector (arbitrage_detector.py) ----
    det,              \* the last detector call: the function and its argument
    det_out,          \* what it returned
    \* ---- TradeSimulator._sentiment_to_risk (trade_simulator.py) ----
    risk,             \* the last call: the sentiment and the multiplier returned
    \* ---- AntiGravityBot._run_cycle (monitor.py) ----
    cyc               \* the cycle in progress: its simple prices, coin and events

ledger_vars == <<capital, initial_capital, trade_history, store, ctor, op, result, call>>

bot_vars == <<running, cycle_count, thr>>

fetch_vars == <<elapsed, since_issue, last_gap, sg, ret>>

price_vars == <<pf, quotes, prov, real_seen>>

detector_vars == <<det, det_out>>

risk_vars == <<risk>>

cycle_vars == <<cyc>>

vars == <<capital, initial_capital, trade_history, store, ctor, op, result, call,
          running, cycle_count, thr,
          elapsed, since_issue, last_gap, sg, ret,
          pf, quotes, prov, real_seen,
          det, det_out, risk, cyc>>

----------------------------------------------------------------------------
(* Units and bounds *)

MoneyScale == 10 * 100
PctScale   == 1000 * 1000

\* Longest trade history the ledger is explored to.
MaxHistory == 2
\* Longest record list of the trade file the process starts from.
MaxStored == 2

Min(a, b) == IF a <= b THEN a ELSE b
Max(a, b) == IF a >= b THEN a ELSE b

\* Python's round(x, n) on a value kept with one (money) or two (percent)
\* more decimal digits: to the nearest multiple of m, ties to even.
RoundTo(x, m) ==
    LET q == x \div m
        r == x % m
    IN  IF 2 * r < m THEN q * m
        ELSE IF 2 * r > m THEN (q + 1) * m
        ELSE IF q % 2 = 0 THEN q * m ELSE (q + 1) * m

Round2(x) == RoundTo(x, 10)
Round4(x) == RoundTo(x, 100)

\* The percentage taken as a fraction: x * pct.
PctOf_Whole(x, pct) == (x * (pct \div 1000)) \div 1000

\* x * (pct / 100) for a money amount x and a percentage pct.
PctOf(x, pct) == (x * (pct \div 1000)) \div (100 * 1000)

----------------------------------------------------------------------------
(* config.py *)

sim_capital_usd         == 1000000
estimated_fee_pct       == 200000
arbitrage_threshold_pct == 800000

----------------------------------------------------------------------------
(* arbitrage_detector.py *)

\* A price map is a Python dict: a sequence of [ex, price] with distinct keys,
\* in insertion order.
PriceMaps ==
    { <<[ex |-> "binance", price |-> 140], [ex |-> "coinbase", price |-> 145]>>,
      <<[ex |-> "binance", price |-> 141], [ex |-> "coinbase", price |-> 140]>>,
      <<[ex |-> "binance", price |-> 140], [ex |-> "coinbase", price |-> 140]>>,
      <<[ex |-> "binance", price |-> 140]>> }

\* The last key holding the least value.
ArgMin_LastSeen(pm) ==
    CHOOSE i \in 1..Len(pm) :
        /\ \A j \in 1..Len(pm) : pm[i].price <= pm[j].price
        /\ \A j \in (i + 1)..Len(pm) : pm[j].price > pm[i].price

\* min(d, key=d.get): the first key holding the least value.
ArgMin(pm) ==
    CHOOSE i \in 1..Len(pm) :
        /\ \A j \in 1..Len(pm) : pm[i].price <= pm[j].price
        /\ \A j \in 1..(i - 1) : pm[j].price > pm[i].price

\* max(d, key=d.get): the first key holding the greatest value.
ArgMax(pm) ==
    CHOOSE i \in 1..Len(pm) :
        /\ \A j \in 1..Len(pm) : pm[i].price >= pm[j].price
        /\ \A j \in 1..(i - 1) : pm[j].price < pm[i].price

\* Line 97: ((sell_price - buy_price) / buy_price) * 100 in millionths of a
\* percent, by long division so that no intermediate exceeds 32 bits.
SpreadPct(diff, buy_price) ==
    LET n == diff * 10000
    IN  (n \div buy_price) * 10000 + ((n % buy_price) * 10000) \div buy_price

\* The fee of one side only.
total_fee_pct_OneSide == estimated_fee_pct

\* Line 101
total_fee_pct == estimated_fee_pct * 2

\* The test of line 92 left out.
NoSpread_Never(pm, b, s) == FALSE

\* Line 92: buy_exchange == sell_exchange
NoSpread(pm, b, s) == pm[b].ex = pm[s].ex

\* The result is <<>> for None and <<opportunity>> otherwise.
find_opportunity(coin_id, exchange_prices) ==
    IF Len(exchange_prices) < 2 THEN <<>>
    ELSE
      LET b == ArgMin(exchange_prices)
          s == ArgMax(exchange_prices)
          buy_price  == exchange_prices[b].price
          sell_price == exchange_prices[s].price
          gross_spread_pct == SpreadPct(sell_price - buy_price, buy_price)
          net_spread_pct   == gross_spread_pct - total_fee_pct
          estimated_profit_usd ==
              ((sim_capital_usd \div 1000) * (net_spread_pct \div 100)) \div 1000
      IN  IF NoSpread(exchange_prices, b, s) THEN <<>>
          ELSE << [ coin                 |-> coin_id,
                    buy_exchange         |-> exchange_prices[b].ex,
                    sell_exchange        |-> exchange_prices[s].ex,
                    buy_price            |-> buy_price,
                    sell_price           |-> sell_price,
                    gross_spread_pct     |-> Round4(gross_spread_pct),
                    net_spread_pct       |-> Round4(net_spread_pct),
                    estimated_profit_usd |-> Round2(estimated_profit_usd),
                    is_viable            |-> net_spread_pct >= arbitrage_threshold_pct ] >>

\* list.sort(key=lambda x: x.net_spread_pct, reverse=True): stable, so
\* entries of equal key keep their order. InsertDesc puts x after every entry
\* whose key is at least x's.
RECURSIVE InsertDesc(_, _)
InsertDesc(sorted, x) ==
    IF sorted = <<>> THEN <<x>>
    ELSE IF Head(sorted).net_spread_pct >= x.net_spread_pct
         THEN <<Head(sorted)>> \o InsertDesc(Tail(sorted), x)
         ELSE <<x>> \o sorted

RECURSIVE SortDesc(_)
SortDesc(opps) ==
    IF opps = <<>> THEN <<>>
    ELSE InsertDesc(SortDesc(SubSeq(opps, 1, Len(opps) - 1)), opps[Len(opps)])

\* Lines 143-148: the viable opportunities in the order of all_prices.items().
\* all_prices is a sequence of [coin, prices].
RECURSIVE Viable(_)
Viable(all_prices) ==
    IF all_prices = <<>> THEN <<>>
    ELSE LET opp == find_opportunity(all_prices[1].coin, all_prices[1].prices)
         IN  (IF opp # <<>> /\ opp[1].is_viable THEN opp ELSE <<>>)
             \o Viable(Tail(all_prices))

\* scan_all_coins without the sort of line 151.
scan_all_coins_Unsorted(all_prices) == Viable(all_prices)

\* Lines 130-160
scan_all_coins(all_prices) == SortDesc(Viable(all_prices))

\* The price maps find_opportunity is explored on: up to MaxQuotes quotes of
\* distinct exchanges, prices in cents. 100.00 -> 101.20 nets the threshold
\* exactly; 159.17 -> 161.08 nets 0.799975%, which rounds to it.
MaxQuotes == 3
DetectorExchanges == {"binance", "coinbase", "kraken"}
DetectorPrices == {10000, 10120, 15917, 16108, 16300}

DetectorMaps ==
    { pm \in UNION { [1..k -> [ex : DetectorExchanges, price : DetectorPrices]] :
                         k \in 0..MaxQuotes } :
        \A i, j \in 1..Len(pm) : i # j => pm[i].ex # pm[j].ex }

\* The snapshots scan_all_coins is explored on: one entry per coin, each
\* empty, single-exchange, flat, non-viable or viable.
SnapshotCoins == <<"bitcoin", "ethereum", "ripple">>

SnapshotMaps ==
    { <<>>,
      <<[ex |-> "binance", price |-> 16108]>>,
      <<[ex |-> "binance", price |-> 16108], [ex |-> "kraken", price |-> 16108]>>,
      <<[ex |-> "binance", price |-> 16108], [ex |-> "kraken", price |-> 16300]>>,
      <<[ex |-> "binance", price |-> 10000], [ex |-> "kraken", price |-> 10120]>>,
      <<[ex |-> "kraken", price |-> 16300], [ex |-> "coinbase", price |-> 15917]>>,
      <<[ex |-> "binance", price |-> 15917], [ex |-> "coinbase", price |-> 16300],
        [ex |-> "kraken", price |-> 16108]>> }

Snapshots ==
    { [i \in 1..Len(SnapshotCoins) |-> [coin |-> SnapshotCoins[i], prices |-> f[i]]] :
        f \in [1..Len(SnapshotCoins) -> SnapshotMaps] }

NoDetection == [fn |-> "none", arg |-> <<>>]

DetectorIdle ==
    /\ det = NoDetection
    /\ det_out = <<>>

\* find_opportunity("ripple", exchange_prices) is called.
FindOpportunity ==
    \E pm \in DetectorMaps :
        /\ det = NoDetection
        /\ det' = [fn |-> "find_opportunity", arg |-> pm]
        /\ det_out' = find_opportunity("ripple", pm)
        /\ UNCHANGED <<ledger_vars, bot_vars, fetch_vars, price_vars, risk_vars, cycle_vars>>

\* scan_all_coins(all_prices) is called.
ScanAllCoins ==
    \E all_prices \in Snapshots :
        /\ det = NoDetection
        /\ det' = [fn |-> "scan_all_coins", arg |-> all_prices]
        /\ det_out' = scan_all_coins(all_prices)
        /\ UNCHANGED <<ledger_vars, bot_vars, fetch_vars, price_vars, risk_vars, cycle_vars>>

\* The caller is done with the result.
DetectorReturn ==
    /\ det # NoDetection
    /\ det' = NoDetection
    /\ det_out' = <<>>
    /\ UNCHANGED <<ledger_vars, bot_vars, fetch_vars, price_vars, risk_vars, cycle_vars>>

\* The opportunities execute_simulation is called with.
Opportunities ==
    { find_opportunity("ripple", pm)[1] :
        pm \in { m \in PriceMaps : find_opportunity("ripple", m) # <<>> } }

----------------------------------------------------------------------------
(* trade_simulator.py *)

\* What the sentiment collaborator supplies: score in hundredths, trending.
Sentiments == [score : {-90, 0, 60}, trending : BOOLEAN]

\* Every score the analyzer can report, -1.00 .. 1.00 in hundredths.
SentimentScores == -100..100

AnySentiment == [score : SentimentScores, trending : BOOLEAN]

\* The mapping on intervals open on the left.
_sentiment_to_risk_OpenIntervals(sentiment) ==
    LET score == sentiment.score
        multiplier ==
            IF score > 50 THEN 150
            ELSE IF score > 20 THEN 120
            ELSE IF score > -20 THEN 100
            ELSE IF score > -50 THEN 70
            ELSE 30
    IN  IF sentiment.trending THEN (multiplier * 11) \div 10 ELSE multiplier

\* The multiplier in hundredths (1.5 is 150).
_sentiment_to_risk(sentiment) ==
    LET score == sentiment.score
        multiplier ==
            IF score >= 50 THEN 150
            ELSE IF score >= 20 THEN 120
            ELSE IF score >= -20 THEN 100
            ELSE IF score >= -50 THEN 70
            ELSE 30
    IN  IF sentiment.trending THEN (multiplier * 11) \div 10 ELSE multiplier

\* Sizing without the ceiling of max_capital.
CapitalUsed_NoCeiling(cap, risk_multiplier) ==
    Max(10 * MoneyScale, (cap * risk_multiplier) \div 200)

\* Lines 109-111: the capital deployed in one trade.
CapitalUsed(cap, risk_multiplier) ==
    LET max_capital == (cap * 80) \div 100
    IN  Max(10 * MoneyScale, Min(max_capital, (cap * risk_multiplier) \div 200))

\* Rejected on the capital alone.
Rejected_ViabilityIgnored(opportunity, cap) == cap <= 0

\* Rejected without the capital check of lines 100-102.
Rejected_NoCapitalCheck(opportunity, cap) == ~opportunity.is_viable

\* Lines 96-102: the two early returns of execute_simulation.
Rejected(opportunity, cap) == (~opportunity.is_viable) \/ cap <= 0

\* Lines 104-148: sizing, P&L and the SimulatedTrade record. net_profit is the
\* unrounded amount added to self.capital; the record holds the rounded
\* fields. timestamp, net_profit_pct, sentiment_label and mode are left out
\* of the record: no operation of the ledger reads them.
Settle(cap, opportunity, sentiment) ==
    LET risk_multiplier == _sentiment_to_risk(sentiment)
        capital_used    == CapitalUsed(cap, risk_multiplier)
        gross_revenue   == (capital_used * opportunity.sell_price) \div opportunity.buy_price
        gross_profit    == gross_revenue - capital_used
        fee_buy         == PctOf(capital_used, estimated_fee_pct)
        fee_sell        == PctOf(gross_revenue, estimated_fee_pct)
        total_fees      == fee_buy + fee_sell
        net_profit      == gross_profit - total_fees
    IN  [ capital_used |-> capital_used,
          net_profit   |-> net_profit,
          trade |-> [ coin             |-> opportunity.coin,
                      buy_exchange     |-> opportunity.buy_exchange,
                      sell_exchange    |-> opportunity.sell_exchange,
                      buy_price        |-> opportunity.buy_price,
                      sell_price       |-> opportunity.sell_price,
                      capital_used     |-> Round2(capital_used),
                      gross_profit_usd |-> Round2(gross_profit),
                      fees_paid_usd    |-> Round2(total_fees),
                      net_profit_usd   |-> Round2(net_profit),
                      sentiment_score  |-> sentiment.score,
                      risk_multiplier  |-> risk_multiplier ] ]

\* sum(t.net_profit_usd for t in trades)
RECURSIVE SumNet(_)
SumNet(trades) ==
    IF trades = <<>> THEN 0
    ELSE trades[Len(trades)].net_profit_usd + SumNet(SubSeq(trades, 1, Len(trades) - 1))

\* The trade file. kind is "missing" (no file), "corrupt" (not JSON: empty,
\* truncated), "notalist" (JSON, but an object with keys, a number or null)
\* or "list"; recs are the elements of the list, each a JSON object whose
\* keys are exactly the fields of SimulatedTrade (wellformed) or not.
StoreOf(kind, recs) == [kind |-> kind, recs |-> recs]

Item(t) == [wellformed |-> TRUE, t |-> t]

\* to_dict / SimulatedTrade(**t): the records of a list of stored objects.
RECURSIVE TradesOf(_)
TradesOf(items) ==
    IF items = <<>> THEN <<>>
    ELSE <<items[1].t>> \o TradesOf(Tail(items))

\* The longest prefix of well-formed objects: what the loop of line 245 has
\* appended when SimulatedTrade(**t) raises TypeError.
RECURSIVE GoodPrefix(_)
GoodPrefix(items) ==
    IF items = <<>> \/ ~items[1].wellformed THEN <<>>
    ELSE <<items[1]>> \o GoodPrefix(Tail(items))

\* The load without lines 247-249: the capital is not recomputed.
_load_existing_trades_NoRecompute(initial, st) ==
    [raised |-> st.kind = "notalist" \/ (st.kind = "list" /\ GoodPrefix(st.recs) # st.recs),
     trade_history |-> IF st.kind = "list" THEN TradesOf(GoodPrefix(st.recs)) ELSE <<>>,
     capital |-> initial]

\* Lines 239-256. Only FileNotFoundError and json.JSONDecodeError are caught:
\* iterating a non-list or building a trade from a malformed object raises
\* TypeError out of the constructor.
_load_existing_trades(initial, st) ==
    IF st.kind \in {"missing", "corrupt"} THEN
        [raised |-> FALSE, trade_history |-> <<>>, capital |-> initial]
    ELSE IF st.kind = "notalist" THEN
        [raised |-> TRUE, trade_history |-> <<>>, capital |-> initial]
    ELSE IF GoodPrefix(st.recs) # st.recs THEN
        [raised |-> TRUE, trade_history |-> TradesOf(GoodPrefix(st.recs)),
         capital |-> initial]
    ELSE
        [raised |-> FALSE, trade_history |-> TradesOf(st.recs),
         capital |-> IF st.recs # <<>> THEN initial + SumNet(TradesOf(st.recs))
                     ELSE initial]

\* Lines 223-237. w is what the file system does: "ok", "io_error" (a read
\* or the open for writing raises OSError: the file is left as it was) or
\* "partial" (the file is truncated by open(.., "w") and json.dump fails).
\* Every exception is caught and logged.
WriteOutcomes == {"ok", "io_error", "partial"}

_save_trade(st, trade, w) ==
    LET trades_data == IF st.kind \in {"missing", "corrupt"} THEN <<>> ELSE st.recs
    IN  IF w = "io_error" THEN st
        ELSE IF st.kind = "notalist" THEN st
        ELSE IF w = "partial" THEN StoreOf("corrupt", <<>>)
        ELSE StoreOf("list", Append(trades_data, Item(trade)))

\* Whether that write completed.
Saved(st, w) == w = "ok" /\ st.kind # "notalist"

\* capital: self.capital at entry; net_profit: the amount of line 127.
NoSentiment == [score |-> 0, trending |-> FALSE]
NoCall == [capital |-> 0, viable |-> FALSE, sentiment |-> NoSentiment,
           capital_used |-> 0, net_profit |-> 0, write |-> "none"]

\* Lines 75-79, with 0 for a falsy initial_capital argument.
InitialCapitalArgs == {0, 10 * MoneyScale}

Constructed(arg, st) ==
    LET cap0   == IF arg = 0 THEN sim_capital_usd ELSE arg
        loaded == _load_existing_trades(cap0, st)
    IN  [ initial_capital |-> cap0,
          capital         |-> loaded.capital,
          trade_history   |-> loaded.trade_history,
          ctor            |-> IF loaded.raised THEN "TypeError" ELSE "ok",
          result          |-> IF loaded.raised THEN "raised" ELSE "constructed" ]

\* The records a trade file of an earlier run may hold: a settled trade, a
\* record with a loss, and an object that is not a SimulatedTrade.
WinRecord ==
    Settle(sim_capital_usd,
           find_opportunity("ripple", <<[ex |-> "binance", price |-> 140],
                                        [ex |-> "coinbase", price |-> 145]>>)[1],
           [score |-> 0, trending |-> FALSE]).trade

LossRecord == [WinRecord EXCEPT !.net_profit_usd = -995 * MoneyScale]

StoredItems ==
    { Item(WinRecord), Item(LossRecord), [wellformed |-> FALSE, t |-> WinRecord] }

SeqsUpTo(S, n) == UNION { [1..k -> S] : k \in 0..n }

InitialStores ==
    { StoreOf("missing", <<>>), StoreOf("corrupt", <<>>), StoreOf("notalist", <<>>) }
    \cup { StoreOf("list", recs) : recs \in SeqsUpTo(StoredItems, MaxStored) }

\* The ledger as TradeSimulator(arg) leaves it over the trade file st.
LedgerIs(arg, st) ==
    LET c == Constructed(arg, st)
    IN  /\ store = st
        /\ initial_capital = c.initial_capital
        /\ capital = c.capital
        /\ trade_history = c.trade_history
        /\ ctor = c.ctor
        /\ op = "init"
        /\ result = c.result
        /\ call = NoCall

LedgerInit ==
    \E arg \in InitialCapitalArgs, st \in InitialStores : LedgerIs(arg, st)

\* The process is started again: a new TradeSimulator over the file as it is.
Restart ==
    \E arg \in InitialCapitalArgs :
        LET c == Constructed(arg, store)
        IN  /\ initial_capital' = c.initial_capital
            /\ capital' = c.capital
            /\ trade_history' = c.trade_history
            /\ ctor' = c.ctor
            /\ op' = "init"
            /\ result' = c.result
            /\ call' = NoCall
            /\ UNCHANGED store
            /\ UNCHANGED <<bot_vars, fetch_vars, price_vars, detector_vars, risk_vars, cycle_vars>>

\* Only a write that completed leaves _save_trade without an exception.
Logged_NothingCaught(st, w) == Saved(st, w)

\* Lines 236-237: except Exception catches whatever the read or the write
\* raised; _save_trade returns normally.
Logged(st, w) == TRUE

\* A summary that settles self.capital to cents.
get_performance_summary_Rounds ==
    /\ ctor = "ok"
    /\ op' = "get_performance_summary"
    /\ result' = IF trade_history = <<>> THEN "message" ELSE "summary"
    /\ call' = NoCall
    /\ capital' = Round2(capital)
    /\ UNCHANGED <<initial_capital, trade_history, store, ctor>>
    /\ UNCHANGED <<bot_vars, fetch_vars, price_vars, detector_vars, risk_vars, cycle_vars>>

\* Lines 96-154 on one opportunity, one sentiment and one outcome of the write.
Simulation(opportunity, sentiment, w) ==
    /\ op' = "execute_simulation"
    /\ IF Rejected(opportunity, capital) THEN
           /\ result' = "None"
           /\ call' = [capital |-> capital, viable |-> opportunity.is_viable,
                       sentiment |-> sentiment, capital_used |-> 0,
                       net_profit |-> 0, write |-> "none"]
           /\ UNCHANGED <<capital, initial_capital, trade_history, store, ctor>>
       ELSE
           LET s == Settle(capital, opportunity, sentiment)
           IN  /\ capital' = capital + s.net_profit
               /\ trade_history' = Append(trade_history, s.trade)
               /\ store' = _save_trade(store, s.trade, w)
               /\ result' = IF Logged(store, w) THEN "trade" ELSE "raised"
               /\ call' = [capital |-> capital, viable |-> opportunity.is_viable,
                           sentiment |-> sentiment,
                           capital_used |-> s.capital_used,
                           net_profit |-> s.net_profit,
                           write |-> IF Saved(store, w) THEN "ok" ELSE "failed"]
               /\ UNCHANGED <<initial_capital, ctor>>

execute_simulation ==
    \E opportunity \in Opportunities, sentiment \in Sentiments, w \in WriteOutcomes :
        /\ ctor = "ok"
        /\ Len(trade_history) < MaxHistory
        /\ Simulation(opportunity, sentiment, w)
        /\ UNCHANGED <<bot_vars, fetch_vars, price_vars, detector_vars, risk_vars, cycle_vars>>

\* Lines 184-221: reads the history, returns a summary.
get_performance_summary ==
    /\ ctor = "ok"
    /\ op' = "get_performance_summary"
    /\ result' = IF trade_history = <<>> THEN "message" ELSE "summary"
    /\ call' = NoCall
    /\ UNCHANGED <<capital, initial_capital, trade_history, store, ctor>>
    /\ UNCHANGED <<bot_vars, fetch_vars, price_vars, detector_vars, risk_vars, cycle_vars>>

\* Before the first call.
NoRisk == [sentiment |-> NoSentiment, multiplier |-> 0]

RiskIdle == risk = NoRisk

\* Lines 156-182, called on a sentiment.
SentimentToRisk ==
    \E sentiment \in AnySentiment :
        /\ risk' = [sentiment |-> sentiment, multiplier |-> _sentiment_to_risk(sentiment)]
        /\ UNCHANGED <<ledger_vars, bot_vars, fetch_vars, price_vars, detector_vars,
                       cycle_vars>>

----------------------------------------------------------------------------
(* monitor.py, web_app.py *)

\* Threads start_bot may start, and the coins and cycles explored.
MaxThreads == 2
NumCoins   == 2
MaxCycles  == 2

Threads == 1..MaxThreads

\* A thread is at one place of run_bot_in_background / AntiGravityBot.run:
\*   "unborn"    not started
\*   "run_entry" started, before line 102 (self.running = True)
\*   "while"     at the test of line 104
\*   "cycle"     lines 105-168 (_run_cycle up to get_price_simple)
\*   "iter"      line 170-175, the iteration of coin number .coin begins
\*   "fetch"     lines 178-202 (get_all_exchange_prices, sentiment, detection)
\*   "simulate"  line 210, execute_simulation is in flight
\*   "rest"      lines 215-249 (ML, alert, record, sleep 1.5)
\*   "sleep"     lines 116-135 (error log, summary, time.sleep)
\*   "final"     line 138, then "dead"
\* .stopped records that a stop was requested while the thread was in a cycle.
Unborn == [pc |-> "unborn", coin |-> 0, stopped |-> FALSE]

CyclePcs == {"cycle", "iter", "fetch", "simulate", "rest"}
LoopPcs  == CyclePcs \cup {"sleep"}

At(t, pc) == thr[t].pc = pc

Goto(t, pc, coin) == thr' = [thr EXCEPT ![t] = [@ EXCEPT !.pc = pc, !.coin = coin]]

\* The for loop of line 170 moves on: the next coin, or the end of _run_cycle.
Advance(t) ==
    IF thr[t].coin < NumCoins THEN Goto(t, "iter", thr[t].coin + 1)
    ELSE Goto(t, "sleep", 0)

BotIdle ==
    /\ running = FALSE
    /\ cycle_count = 0
    /\ thr = [t \in Threads |-> Unborn]

\* The while test of line 104 with the flag ignored.
WhileCondition_Ignored == TRUE

\* Line 104: while self.running
WhileCondition == running

\* web_app.py 32-48
start_bot ==
    /\ IF running THEN UNCHANGED thr
       ELSE \E t \in Threads :
               /\ At(t, "unborn")
               /\ \A u \in 1..(t - 1) : ~At(u, "unborn")
               /\ Goto(t, "run_entry", 0)
    /\ UNCHANGED <<running, cycle_count>>
    /\ UNCHANGED <<ledger_vars, fetch_vars, price_vars, detector_vars, risk_vars, cycle_vars>>

\* A stop request reaches the flag: the threads inside a cycle are marked.
StopRequested ==
    /\ running' = FALSE
    /\ thr' = [t \in Threads |->
                 IF thr[t].pc \in CyclePcs THEN [thr[t] EXCEPT !.stopped = TRUE]
                 ELSE thr[t]]

\* web_app.py 50-60
stop_bot ==
    /\ IF ~running THEN UNCHANGED <<running, thr>> ELSE StopRequested
    /\ UNCHANGED cycle_count
    /\ UNCHANGED <<ledger_vars, fetch_vars, price_vars, detector_vars, risk_vars, cycle_vars>>

\* web_app.py 62-138: reads running, cycle_count and the two files.
get_bot_status ==
    /\ UNCHANGED <<bot_vars, fetch_vars, price_vars, detector_vars, risk_vars, cycle_vars>>
    /\ UNCHANGED <<ledger_vars, fetch_vars, price_vars, detector_vars, risk_vars, cycle_vars>>

\* monitor.py 251-254, the SIGINT handler.
_graceful_shutdown ==
    /\ \E t \in Threads : thr[t].pc \in LoopPcs
    /\ StopRequested
    /\ UNCHANGED cycle_count
    /\ UNCHANGED <<ledger_vars, fetch_vars, price_vars, detector_vars, risk_vars, cycle_vars>>

\* monitor.py 101-102
RunEntry(t) ==
    /\ At(t, "run_entry")
    /\ running' = TRUE
    /\ Goto(t, "while", 0)
    /\ UNCHANGED cycle_count
    /\ UNCHANGED <<ledger_vars, fetch_vars, price_vars, detector_vars, risk_vars, cycle_vars>>

\* monitor.py 104-105, 138
WhileTest(t) ==
    /\ At(t, "while")
    /\ IF WhileCondition THEN
           /\ cycle_count < MaxCycles
           /\ cycle_count' = cycle_count + 1
           /\ thr' = [thr EXCEPT ![t] = [pc |-> "cycle", coin |-> 0, stopped |-> FALSE]]
       ELSE
           /\ Goto(t, "final", 0)
           /\ UNCHANGED cycle_count
    /\ UNCHANGED running
    /\ UNCHANGED <<ledger_vars, fetch_vars, price_vars, detector_vars, risk_vars, cycle_vars>>

\* monitor.py 145-170: the prelude of _run_cycle, then the first coin.
CycleStart(t) ==
    /\ At(t, "cycle")
    /\ Advance(t)
    /\ UNCHANGED <<running, cycle_count>>
    /\ UNCHANGED <<ledger_vars, fetch_vars, price_vars, detector_vars, risk_vars, cycle_vars>>

\* monitor.py 170-175: no data for the coin (continue), or on to the fetch.
BeginIter(t) ==
    /\ At(t, "iter")
    /\ \/ Advance(t)
       \/ Goto(t, "fetch", thr[t].coin)
    /\ UNCHANGED <<running, cycle_count>>
    /\ UNCHANGED <<ledger_vars, fetch_vars, price_vars, detector_vars, risk_vars, cycle_vars>>

\* monitor.py 178-208: the fetch returns; the opportunity is viable or not.
Fetch(t) ==
    /\ At(t, "fetch")
    /\ \/ Goto(t, "simulate", thr[t].coin)
       \/ Goto(t, "rest", thr[t].coin)
    /\ UNCHANGED <<running, cycle_count>>
    /\ UNCHANGED <<ledger_vars, fetch_vars, price_vars, detector_vars, risk_vars, cycle_vars>>

\* monitor.py 210: execute_simulation returns.
Simulate(t) ==
    /\ At(t, "simulate")
    /\ Goto(t, "rest", thr[t].coin)
    /\ UNCHANGED <<running, cycle_count>>
    /\ UNCHANGED <<ledger_vars, fetch_vars, price_vars, detector_vars, risk_vars, cycle_vars>>

\* monitor.py 215-249, then the next iteration.
Rest(t) ==
    /\ At(t, "rest")
    /\ Advance(t)
    /\ UNCHANGED <<running, cycle_count>>
    /\ UNCHANGED <<ledger_vars, fetch_vars, price_vars, detector_vars, risk_vars, cycle_vars>>

\* monitor.py 112-118: an exception leaves _run_cycle and is logged.
CycleError(t) ==
    /\ thr[t].pc \in CyclePcs
    /\ Goto(t, "sleep", 0)
    /\ UNCHANGED <<running, cycle_count>>
    /\ UNCHANGED <<ledger_vars, fetch_vars, price_vars, detector_vars, risk_vars, cycle_vars>>

\* monitor.py 121-135
Sleep(t) ==
    /\ At(t, "sleep")
    /\ Goto(t, "while", 0)
    /\ UNCHANGED <<running, cycle_count>>
    /\ UNCHANGED <<ledger_vars, fetch_vars, price_vars, detector_vars, risk_vars, cycle_vars>>

\* monitor.py 138, 256-264
Final(t) ==
    /\ At(t, "final")
    /\ Goto(t, "dead", 0)
    /\ UNCHANGED <<running, cycle_count>>
    /\ UNCHANGED <<ledger_vars, fetch_vars, price_vars, detector_vars, risk_vars, cycle_vars>>

----------------------------------------------------------------------------
(* monitor.py: _run_cycle, one coin at a time *)

\* config.py 53-59: TRADING.coins in order; the first NumCoins are explored.
TradingCoins == <<"bitcoin", "ethereum", "solana", "binancecoin", "ripple">>

CycleCoins == { TradingCoins[k] : k \in 1..NumCoins }

\* What get_all_exchange_prices returns for a coin (prices in cents): a net
\* spread of 3.17, one of 0.8, one below the threshold, and no spread.
CycleQuotes ==
    { <<[ex |-> "binance", price |-> 140], [ex |-> "coinbase", price |-> 145]>>,
      <<[ex |-> "binance", price |-> 1250], [ex |-> "coinbase", price |-> 1265]>>,
      <<[ex |-> "binance", price |-> 141], [ex |-> "coinbase", price |-> 140]>>,
      <<[ex |-> "binance", price |-> 140], [ex |-> "coinbase", price |-> 140]>> }

\* What sentiment_analyzer.analyze returns for a coin: a neutral market.
CycleSentiments == {NoSentiment}

\* The write of line 151 completes, or fails and leaves the file as it was.
CycleWrites == {"ok", "io_error"}

\* .n cycles were started; .i is the position of the for loop of line 170 in
\* TRADING.coins; .events holds, per coin of the cycle in progress, what was
\* done for it; .skipped_before the coins the cycle before had no data for.
NoCycle == [pc |-> "idle", n |-> 0, simple_prices |-> {}, i |-> 0,
            events |-> <<>>, skipped_before |-> {}]

CycleIdle == cyc = NoCycle

\* A coin is analysed whether or not simple_prices holds it.
NotInSimplePrices_Never(coin, simple_prices) == FALSE

\* Line 173: if coin not in simple_prices
NotInSimplePrices(coin, simple_prices) == coin \notin simple_prices

\* Lines 145-168: the prelude of _run_cycle; get_price_simple returns prices
\* for some of the coins, or for none.
RunCycleEnter ==
    /\ cyc.pc = "idle"
    /\ cyc.n < MaxCycles
    /\ ctor = "ok"
    /\ \E simple_prices \in SUBSET CycleCoins :
           cyc' = [pc |-> "coins", n |-> cyc.n + 1, simple_prices |-> simple_prices,
                   i |-> 1, events |-> <<>>,
                   skipped_before |->
                       { cyc.events[k].coin :
                           k \in { j \in 1..Len(cyc.events) : ~cyc.events[j].fetched } }]
    /\ UNCHANGED <<ledger_vars, bot_vars, fetch_vars, price_vars, detector_vars,
                   risk_vars>>

\* Lines 170-249: one iteration of the for loop.
AnalyseCoin ==
    /\ cyc.pc = "coins"
    /\ cyc.i <= NumCoins
    /\ LET coin == TradingCoins[cyc.i]
       IN  IF NotInSimplePrices(coin, cyc.simple_prices) THEN
               /\ cyc' = [cyc EXCEPT !.i = @ + 1,
                                     !.events = Append(@,
                                         [coin |-> coin, fetched |-> FALSE,
                                          detected |-> FALSE, traded |-> FALSE,
                                          net_spread_pct |-> 0])]
               /\ UNCHANGED ledger_vars
           ELSE
               \E exchange_prices \in CycleQuotes, sentiment \in CycleSentiments,
                  w \in CycleWrites :
                   LET opportunity == find_opportunity(coin, exchange_prices)
                       viable      == opportunity # <<>> /\ opportunity[1].is_viable
                   IN  /\ IF viable THEN Simulation(opportunity[1], sentiment, w)
                          ELSE UNCHANGED ledger_vars
                       /\ cyc' = [cyc EXCEPT !.i = @ + 1,
                                     !.events = Append(@,
                                         [coin |-> coin, fetched |-> TRUE,
                                          detected |-> TRUE,
                                          traded |-> viable /\ capital > 0,
                                          net_spread_pct |->
                                              IF opportunity = <<>> THEN 0
                                              ELSE opportunity[1].net_spread_pct])]
    /\ UNCHANGED <<bot_vars, fetch_vars, price_vars, detector_vars, risk_vars>>

\* The for loop of line 170 is exhausted: _run_cycle returns.
RunCycleReturn ==
    /\ cyc.pc = "coins"
    /\ cyc.i > NumCoins
    /\ cyc' = [cyc EXCEPT !.pc = "idle"]
    /\ UNCHANGED <<ledger_vars, bot_vars, fetch_vars, price_vars, detector_vars,
                   risk_vars>>

----------------------------------------------------------------------------
(* price_fetcher.py: _safe_get and its callers *)

\* Durations are whole seconds; a duration at or beyond Horizon is kept as
\* Horizon (the code compares elapsed time with min_call_interval only).
Horizon == 3

max_retries       == 3
overview_retries  == 2
min_call_interval == 2
timeout           == 15

Never == -1

\* x seconds and d more, kept up to Horizon.
Later(x, d) == IF x = Never THEN Never ELSE Min(Horizon, x + d)

RECURSIVE Pow2(_)
Pow2(n) == IF n = 0 THEN 1 ELSE 2 * Pow2(n - 1)

\* A wait that grows by base_wait with each attempt.
_exponential_backoff_Linear(attempt, base_wait) == base_wait * (attempt + 1)

\* Lines 46-48
_exponential_backoff(attempt, base_wait) == base_wait * Pow2(attempt)

\* The callers of _safe_get and the max_retries each passes (lines 244, 349).
Callers == {"get_price_simple", "get_market_overview"}

RetriesOf(fn) == IF fn = "get_market_overview" THEN overview_retries ELSE max_retries

\* What the caller returns for a _safe_get result (lines 245-250, 350).
ApiResult(fn, r) ==
    IF r = "data" THEN "data"
    ELSE IF fn = "get_price_simple" THEN "{}" ELSE "[]"

\* What one session.get can do: a 2xx reply, a 429 reply, another error
\* status (raise_for_status raises HTTPError), or no reply at all (timeout,
\* connection error: a RequestException; a reply that is not JSON raises
\* requests' JSONDecodeError, a RequestException too).
Outcomes == {"ok", "429", "http_error", "network_error"}

\* How long one session.get takes: under a second, a second, the timeout.
Durations == {0, 1, timeout}

\* The time the caller lets pass between two calls.
Pauses == 0..Horizon

\* Lines 106-113: the exceptions the except clauses catch.
Caught(o) == o \in {"http_error", "network_error"}

\* Lines 92: a reply was received, self._last_call_time is set.
Replied(o) == o \in {"ok", "429", "http_error"}

\* The for loop of line 89 with one iteration too many.
MoreAttempts_OffByOne(c) == c.attempt <= c.max_retries

\* Line 89: for attempt in range(max_retries)
MoreAttempts(c) == c.attempt < c.max_retries

\* err is what the last session.get of the call did.
Idle == [pc |-> "idle", fn |-> "none", attempt |-> 0, max_retries |-> 0,
         nreq |-> 0, wait |-> 0, ok |-> FALSE, err |-> "none"]

NoReturn == [fn |-> "none", safe_get |-> "none", api |-> "none"]

FetchIdle ==
    /\ elapsed = Horizon
    /\ since_issue = Never
    /\ last_gap = Never
    /\ sg = Idle
    /\ ret = NoReturn

\* Lines 81-87: a caller enters _safe_get, pause seconds after the last
\* return; the throttle sleeps for what is missing of min_call_interval.
SafeGetEnter ==
    \E fn \in Callers, pause \in Pauses :
        LET e     == Later(elapsed, pause)
            sleep == IF e < min_call_interval THEN min_call_interval - e ELSE 0
        IN  /\ sg.pc = "idle"
            /\ elapsed' = Later(e, sleep)
            /\ since_issue' = Later(since_issue, pause + sleep)
            /\ sg' = [pc |-> "attempt", fn |-> fn, attempt |-> 0,
                      max_retries |-> RetriesOf(fn), nreq |-> 0, wait |-> 0,
                      ok |-> FALSE, err |-> "none"]
            /\ ret' = [fn |-> fn, safe_get |-> "pending", api |-> "pending"]
            /\ UNCHANGED last_gap
            /\ UNCHANGED <<ledger_vars, bot_vars, price_vars, detector_vars, risk_vars, cycle_vars>>

\* The call ends, returning r (lines 104, 116) or raising.
Return(r) ==
    /\ sg' = [sg EXCEPT !.pc = "idle", !.nreq = @ + 1, !.ok = (r = "data")]
    /\ ret' = [fn |-> sg.fn, safe_get |-> r,
               api |-> IF r = "raised" THEN "raised" ELSE ApiResult(sg.fn, r)]

\* Lines 90-113: one session.get and what follows it, up to the sleep.
SafeGetRequest ==
    \E o \in Outcomes, d \in Durations :
        /\ sg.pc = "attempt"
        /\ MoreAttempts(sg)
        /\ last_gap' = since_issue
        /\ since_issue' = Later(0, d)
        /\ elapsed' = IF Replied(o) THEN 0 ELSE Later(elapsed, d)
        /\ IF o = "ok" THEN Return("data")
           ELSE IF o = "429" THEN
               /\ sg' = [sg EXCEPT !.pc = "backoff", !.nreq = @ + 1, !.err = o,
                                   !.wait = _exponential_backoff(sg.attempt, 15)]
               /\ UNCHANGED ret
           ELSE IF ~Caught(o) THEN Return("raised")
           ELSE IF sg.attempt < sg.max_retries - 1 THEN
               /\ sg' = [sg EXCEPT !.pc = "backoff", !.nreq = @ + 1, !.err = o,
                                   !.wait = _exponential_backoff(sg.attempt, 5)]
               /\ UNCHANGED ret
           ELSE
               /\ sg' = [sg EXCEPT !.attempt = @ + 1, !.nreq = @ + 1, !.err = o]
               /\ UNCHANGED ret
        /\ UNCHANGED <<ledger_vars, bot_vars, price_vars, detector_vars, risk_vars, cycle_vars>>

\* Lines 100, 109, 113: time.sleep(wait), then the next iteration.
SafeGetBackoff ==
    /\ sg.pc = "backoff"
    /\ elapsed' = Later(elapsed, sg.wait)
    /\ since_issue' = Later(since_issue, sg.wait)
    /\ sg' = [sg EXCEPT !.pc = "attempt", !.attempt = @ + 1, !.wait = 0]
    /\ UNCHANGED <<last_gap, ret>>
    /\ UNCHANGED <<ledger_vars, bot_vars, price_vars, detector_vars, risk_vars, cycle_vars>>

\* Lines 115-116: the loop is over without a return.
SafeGetGiveUp ==
    /\ sg.pc = "attempt"
    /\ ~MoreAttempts(sg)
    /\ sg' = [sg EXCEPT !.pc = "idle"]
    /\ ret' = [fn |-> sg.fn, safe_get |-> "None", api |-> ApiResult(sg.fn, "None")]
    /\ UNCHANGED <<elapsed, since_issue, last_gap>>
    /\ UNCHANGED <<ledger_vars, bot_vars, price_vars, detector_vars, risk_vars, cycle_vars>>


----------------------------------------------------------------------------
(* price_fetcher.py: get_all_exchange_prices and _simulate_exchange_prices. *)
(* _safe_get is taken by its result: a page of the ticker feed, a reply of  *)
(* /simple/price, or None.                                                  *)

\* TRADING.exchanges (config.py 64-70), here three of the five.
exchanges == <<"binance", "coinbase", "kraken">>

\* EXCHANGE_ID_MAP.get(ex, ex), lines 29-43 and 139.
EXCHANGE_ID_MAP(ex) ==
    CASE ex = "coinbase"          -> "gdax"
      [] ex = "coinbase-exchange" -> "gdax"
      [] ex = "htx"               -> "huobi"
      [] ex = "bybit"             -> "bybit_spot"
      [] ex = "okx"               -> "okex"
      [] ex = "mexc"              -> "mxc"
      [] OTHER                    -> ex

\* Lines 138-141
target_ids == { EXCHANGE_ID_MAP(exchanges[i]) : i \in 1..Len(exchanges) }

\* Lines 204, 207: id_to_friendly.get(cg_id, cg_id)
Friendly(cg_id) ==
    IF \E i \in 1..Len(exchanges) : EXCHANGE_ID_MAP(exchanges[i]) = cg_id
    THEN exchanges[CHOOSE i \in 1..Len(exchanges) : EXCHANGE_ID_MAP(exchanges[i]) = cg_id]
    ELSE cg_id

Keys(pm) == { pm[i].ex : i \in 1..Len(pm) }

\* Two dicts are equal when they hold the same items, in whatever order.
Items(pm) == { pm[i] : i \in 1..Len(pm) }

\* Lines 167-186: the tickers of one page, in order. usd is
\* converted_last.usd in cents, 0 when it is missing.
RECURSIVE Collect(_, _)
Collect(prices, tickers) ==
    IF tickers = <<>> THEN prices
    ELSE LET t == Head(tickers)
             keep == /\ t.id \in target_ids
                     /\ t.target \in {"USD", "USDT"}
                     /\ t.usd > 0
                     /\ t.id \notin Keys(prices)
         IN  Collect(IF keep THEN Append(prices, [ex |-> t.id, price |-> t.usd])
                     ELSE prices,
                     Tail(tickers))

\* Lines 205-208
RECURSIVE prices_friendly(_)
prices_friendly(prices) ==
    IF prices = <<>> THEN <<>>
    ELSE <<[ex |-> Friendly(prices[1].ex), price |-> prices[1].price]>>
         \o prices_friendly(Tail(prices))

Ticker(id, target, usd) == [id |-> id, target |-> target, usd |-> usd]

\* A page of /coins/{id}/tickers: the tickers that matter, the length of
\* the whole list (count) and has_more. NoData is a None from _safe_get.
NoData == [tickers |-> <<>>, count |-> -1, has_more |-> FALSE]

Pages ==
    { NoData,
      [tickers |-> <<>>, count |-> 0, has_more |-> FALSE],
      [tickers |-> <<Ticker("binance", "USDT", 140), Ticker("gdax", "USD", 142),
                     Ticker("kraken", "USD", 138)>>,
       count |-> 3, has_more |-> FALSE],
      [tickers |-> <<Ticker("binance", "USDT", 140), Ticker("other", "USDT", 150),
                     Ticker("binance", "USD", 141)>>,
       count |-> 100, has_more |-> TRUE],
      [tickers |-> <<Ticker("gdax", "EUR", 130), Ticker("gdax", "USD", 142)>>,
       count |-> 2, has_more |-> TRUE],
      [tickers |-> <<Ticker("kraken", "USD", 0), Ticker("binance", "USDT", 139)>>,
       count |-> 2, has_more |-> FALSE],
      [tickers |-> <<Ticker("other", "USD", 150)>>, count |-> 100, has_more |-> FALSE] }

\* Line 197 with a cap of 6 pages.
NextPage_CapOffByOne(data, prices, page) ==
    /\ data # NoData
    /\ data.count # 0
    /\ ~(target_ids \subseteq Keys(prices))
    /\ ~(~data.has_more /\ data.count < 100)
    /\ ~(page + 1 > 6)

\* Lines 160-198: after the page numbered page has been read into prices
\* (already collected), whether the while loop goes on to the next page.
NextPage(data, prices, page) ==
    /\ data # NoData
    /\ data.count # 0
    /\ ~(target_ids \subseteq Keys(prices))
    /\ ~(~data.has_more /\ data.count < 100)
    /\ ~(page + 1 > 5)

\* The coins asked for: TRADING.coins (config.py 53-59) and one unknown to
\* the fallback table.
Coins == {"bitcoin", "ethereum", "solana", "binancecoin", "ripple", "dogecoin"}

\* Every coin priced at 100.0.
fallback_prices_AllDefault(coin_id) == 10000

\* Lines 311-318, in cents.
fallback_prices(coin_id) ==
    CASE coin_id = "bitcoin"     -> 6800000
      [] coin_id = "ethereum"    -> 200000
      [] coin_id = "solana"      -> 8500
      [] coin_id = "binancecoin" -> 62000
      [] coin_id = "ripple"      -> 140
      [] OTHER                   -> 10000

\* What base_data.get(coin_id, {}).get("usd") can be: None (no reply, coin
\* or price missing), 0, or a price in cents.
None == -1
BaseReplies == {None, 0, 130, 140}

\* random.uniform(-0.015, 0.015), in thousandths.
Jitters == {-15, 0, 15}

\* Lines 320-324 for one exchange: round(base_price * (1 + spread_pct), 2)
\* base_price * (1000 + spread) is rounded to a multiple of 1000, ties to
\* even, the product taken in two parts so that it stays within 32 bits.
Simulated(base_price, spread) ==
    LET whole == base_price + (base_price * spread) \div 1000
        r     == (base_price * spread) % 1000
    IN  IF 2 * r < 1000 THEN whole
        ELSE IF 2 * r > 1000 THEN whole + 1
        ELSE IF whole % 2 = 0 THEN whole ELSE whole + 1

\* The fallback never taken.
TooFewReal_Never(prices) == FALSE

\* The fallback taken only when no exchange has a real quote.
TooFewReal_OnlyWhenNone(prices) == Len(prices) < 1

\* Line 210: len(prices_friendly) < 2
TooFewReal(prices) == Len(prices) < 2

\* page: the pages requested so far; last: the last page read; from_api: the
\* base price the API gave; base: the base price the synthesis used.
NotFetching == [pc |-> "idle", coin |-> "none", page |-> 0, prices |-> <<>>,
                last |-> NoData, from_api |-> None, base |-> None]

PriceIdle ==
    /\ pf = NotFetching
    /\ quotes = <<>>
    /\ prov = "none"
    /\ real_seen = <<>>

\* Lines 138-147: a call begins; it has returned nothing yet.
PricesEnter ==
    \E coin_id \in Coins :
        /\ pf.pc = "idle"
        /\ pf' = [NotFetching EXCEPT !.pc = "paging", !.coin = coin_id, !.page = 1]
        /\ quotes' = <<>>
        /\ prov' = "none"
        /\ UNCHANGED real_seen
        /\ UNCHANGED <<ledger_vars, bot_vars, fetch_vars, detector_vars, risk_vars, cycle_vars>>

\* Lines 151-198: one turn of the while loop.
PricesPage ==
    \E data \in Pages :
        LET prices == IF data = NoData THEN pf.prices
                      ELSE Collect(pf.prices, data.tickers)
        IN  /\ pf.pc = "paging"
            /\ pf' = IF NextPage(data, prices, pf.page)
                     THEN [pf EXCEPT !.prices = prices, !.last = data, !.page = @ + 1]
                     ELSE [pf EXCEPT !.prices = prices, !.last = data, !.pc = "paged"]
            /\ UNCHANGED <<quotes, prov, real_seen>>
            /\ UNCHANGED <<ledger_vars, bot_vars, fetch_vars, detector_vars, risk_vars, cycle_vars>>

\* Lines 200-219: the real map is returned, or the fallback begins with
\* get_price_simple([coin_id]), whose reply gives b.
PricesReturn ==
    /\ pf.pc = "paged"
    /\ IF TooFewReal(prices_friendly(pf.prices)) THEN
           /\ \E b \in BaseReplies :
                 pf' = [NotFetching EXCEPT !.pc = "simulate", !.coin = pf.coin,
                                           !.from_api = b]
           /\ UNCHANGED <<quotes, prov, real_seen>>
       ELSE
           /\ quotes' = prices_friendly(pf.prices)
           /\ prov' = "real"
           /\ real_seen' = prices_friendly(pf.prices)
           /\ pf' = [NotFetching EXCEPT !.coin = pf.coin]
    /\ UNCHANGED <<ledger_vars, bot_vars, fetch_vars, detector_vars, risk_vars, cycle_vars>>

\* Lines 303-327: _simulate_exchange_prices(coin_id, base_price). b is the
\* reply to the second get_price_simple, made only when base_price is None.
_simulate_exchange_prices ==
    \E b \in IF pf.from_api = None THEN BaseReplies ELSE {None},
       spread \in [1..Len(exchanges) -> Jitters] :
        LET from_api   == IF pf.from_api = None THEN b ELSE pf.from_api
            last       == from_api = None \/ from_api = 0
            base_price == IF last THEN fallback_prices(pf.coin) ELSE from_api
        IN  /\ pf.pc = "simulate"
            /\ quotes' = [i \in 1..Len(exchanges) |->
                            [ex |-> exchanges[i],
                             price |-> Simulated(base_price, spread[i])]]
            /\ prov' = IF last THEN "last_resort" ELSE "synthetic"
            /\ pf' = [pf EXCEPT !.pc = "idle", !.from_api = from_api,
                                 !.base = base_price]
            /\ UNCHANGED real_seen
            /\ UNCHANGED <<ledger_vars, bot_vars, fetch_vars, detector_vars, risk_vars, cycle_vars>>

----------------------------------------------------------------------------
(* Specifications: the ledger (Spec), the control loop (BotSpec),           *)
(* _safe_get (FetchSpec), get_all_exchange_prices (PriceSpec), the detector *)
(* (DetectorSpec), _sentiment_to_risk (RiskSpec) and _run_cycle             *)
(* (RunCycleSpec). Each explores one component; the others rest.            *)

Init ==
    /\ LedgerInit /\ BotIdle /\ FetchIdle /\ PriceIdle /\ DetectorIdle
    /\ RiskIdle /\ CycleIdle

Next ==
    \/ execute_simulation
    \/ get_performance_summary
    \/ Restart

Spec == Init /\ [][Next]_vars

BotInit ==
    /\ LedgerIs(0, StoreOf("missing", <<>>))
    /\ BotIdle
    /\ FetchIdle
    /\ PriceIdle
    /\ DetectorIdle
    /\ RiskIdle
    /\ CycleIdle

BotNext ==
    \/ start_bot
    \/ stop_bot
    \/ get_bot_status
    \/ _graceful_shutdown
    \/ \E t \in Threads : RunEntry(t)
    \/ \E t \in Threads : WhileTest(t)
    \/ \E t \in Threads : CycleStart(t)
    \/ \E t \in Threads : BeginIter(t)
    \/ \E t \in Threads : Fetch(t)
    \/ \E t \in Threads : Simulate(t)
    \/ \E t \in Threads : Rest(t)
    \/ \E t \in Threads : CycleError(t)
    \/ \E t \in Threads : Sleep(t)
    \/ \E t \in Threads : Final(t)

BotSpec == BotInit /\ [][BotNext]_vars

FetchInit ==
    /\ LedgerIs(0, StoreOf("missing", <<>>))
    /\ BotIdle
    /\ FetchIdle
    /\ PriceIdle
    /\ DetectorIdle
    /\ RiskIdle
    /\ CycleIdle

FetchNext ==
    \/ SafeGetEnter
    \/ SafeGetRequest
    \/ SafeGetBackoff
    \/ SafeGetGiveUp

FetchSpec == FetchInit /\ [][FetchNext]_vars

PriceInit ==
    /\ LedgerIs(0, StoreOf("missing", <<>>))
    /\ BotIdle
    /\ FetchIdle
    /\ PriceIdle
    /\ DetectorIdle
    /\ RiskIdle
    /\ CycleIdle

PriceNext ==
    \/ PricesEnter
    \/ PricesPage
    \/ PricesReturn
    \/ _simulate_exchange_prices

PriceSpec == PriceInit /\ [][PriceNext]_vars

DetectorInit ==
    /\ LedgerIs(0, StoreOf("missing", <<>>))
    /\ BotIdle
    /\ FetchIdle
    /\ PriceIdle
    /\ DetectorIdle
    /\ RiskIdle
    /\ CycleIdle

DetectorNext ==
    \/ FindOpportunity
    \/ ScanAllCoins
    \/ DetectorReturn

DetectorSpec == DetectorInit /\ [][DetectorNext]_vars

RiskInit ==
    /\ LedgerIs(0, StoreOf("missing", <<>>))
    /\ BotIdle
    /\ FetchIdle
    /\ PriceIdle
    /\ DetectorIdle
    /\ RiskIdle
    /\ CycleIdle

RiskNext == SentimentToRisk

RiskSpec == RiskInit /\ [][RiskNext]_vars

\* The bot builds TradeSimulator() on its first run: no trade file yet.
RunCycleInit ==
    /\ LedgerIs(0, StoreOf("missing", <<>>))
    /\ BotIdle
    /\ FetchIdle
    /\ PriceIdle
    /\ DetectorIdle
    /\ RiskIdle
    /\ CycleIdle

RunCycleNext ==
    \/ RunCycleEnter
    \/ AnalyseCoin
    \/ RunCycleReturn

RunCycleSpec == RunCycleInit /\ [][RunCycleNext]_vars

----------------------------------------------------------------------------
(* Claims about the ledger, checked under Spec *)

\* C1: in every ledger state, current_capital equals initial_capital plus
\* the sum of net_profit_usd over the in-memory history.
C1_Reconciliation ==
    ctor = "ok" => capital = initial_capital + SumNet(trade_history)

\* C2: for every settled trade, 10.0 <= capital_used <= 0.8 * current_capital,
\* with current_capital as it was when execute_simulation was called.
C2_CapitalUsedBounds ==
    (op = "execute_simulation" /\ result = "trade") =>
        /\ 10 * MoneyScale <= call.capital_used
        /\ 10 * call.capital_used <= 8 * call.capital

\* C3: a call of execute_simulation with a non-viable opportunity or with
\* current_capital <= 0 returns None and leaves current_capital, the
\* history, the initial capital and the trade file as they were.
C3_RejectionLeavesLedger ==
    [][ (op' = "execute_simulation" /\ (~call'.viable \/ capital <= 0)) =>
            /\ result' = "None"
            /\ capital' = capital
            /\ initial_capital' = initial_capital
            /\ trade_history' = trade_history
            /\ store' = store ]_vars

\* A viable opportunity was rejected for want of capital.
C3_Witness ==
    /\ op = "execute_simulation"
    /\ result = "None"
    /\ call.viable
    /\ call.capital <= 0
    /\ trade_history # <<>>

\* The trade file holds a JSON list of objects that are all SimulatedTrades.
Loadable(st) == st.kind = "list" /\ GoodPrefix(st.recs) = st.recs

\* C7: over a missing, unparseable or malformed trade file the constructor
\* succeeds with an empty history and current_capital = initial_capital.
C7_StartupTolerant ==
    (op = "init" /\ ~Loadable(store)) =>
        /\ ctor = "ok"
        /\ trade_history = <<>>
        /\ capital = initial_capital

\* C8: after an execute_simulation whose write succeeded, the trade file
\* holds exactly the trades of the in-memory history, in order.
C8_DurabilityRestored ==
    (op = "execute_simulation" /\ result = "trade" /\ call.write = "ok") =>
        /\ store.kind = "list"
        /\ TradesOf(store.recs) = trade_history

\* C16: after rehydration from a loadable trade file (or none), the loaded
\* history is the stored record sequence in order and current_capital is
\* initial_capital plus the sum of net_profit_usd over it.
C16_RehydrationReconciles ==
    (op = "init" /\ (Loadable(store) \/ store.kind = "missing")) =>
        /\ ctor = "ok"
        /\ trade_history = (IF store.kind = "list" THEN TradesOf(store.recs) ELSE <<>>)
        /\ capital = initial_capital + SumNet(trade_history)

\* A file of two records, one of them a loss, loaded over 10 USD.
C16_Witness ==
    /\ op = "init"
    /\ store.kind = "list"
    /\ Len(store.recs) = 2
    /\ Len(trade_history) = 2
    /\ initial_capital = 10 * MoneyScale
    /\ capital < initial_capital

\* C22: when the write of a settled trade fails, execute_simulation still
\* returns the trade, the trade is the last entry of the in-memory history
\* and current_capital has grown by its net profit.
C22_FailedWriteNotFatal ==
    [][ (op' = "execute_simulation" /\ call'.write = "failed") =>
            /\ result' = "trade"
            /\ ctor' = "ok"
            /\ Len(trade_history') = Len(trade_history) + 1
            /\ SubSeq(trade_history', 1, Len(trade_history)) = trade_history
            /\ trade_history'[Len(trade_history')].net_profit_usd = Round2(call'.net_profit)
            /\ capital' = capital + call'.net_profit
      ]_vars

\* The second trade of a run, its write failed after truncating the file.
C22_Witness ==
    /\ op = "execute_simulation"
    /\ result = "trade"
    /\ call.write = "failed"
    /\ Len(trade_history) = 2
    /\ store.kind = "corrupt"

Settled == op = "execute_simulation" /\ result = "trade"

\* C24: execute_simulation settles a trade exactly when the opportunity is
\* viable and current_capital > 0, whatever the sentiment; the sentiment
\* leaves the coin, the exchanges and the prices of the record as the
\* opportunity has them.
C24_SentimentNeverVetoes ==
    [][ op' = "execute_simulation" =>
            /\ result' = "trade" <=> (call'.viable /\ capital > 0)
            /\ result' = "trade" <=> trade_history' # trade_history
            /\ result' = "trade" =>
                  \E o \in Opportunities :
                      LET t == trade_history'[Len(trade_history')]
                      IN  /\ t.coin = o.coin
                          /\ t.buy_exchange = o.buy_exchange
                          /\ t.sell_exchange = o.sell_exchange
                          /\ t.buy_price = o.buy_price
                          /\ t.sell_price = o.sell_price
                          /\ t.sentiment_score = call'.sentiment.score
      ]_vars

\* A trade settled under the most bearish sentiment.
C24_Witness ==
    /\ Settled
    /\ call.sentiment.score = -90
    /\ ~call.sentiment.trending
    /\ call.capital_used < call.capital \div 2

\* The multiplier of the claim, in hundredths: 1.5, 1.2, 1.0, 0.7, 0.3 on
\* left-closed intervals of the score, times 1.1 when trending.
RiskOf(sentiment) ==
    LET base == CASE sentiment.score >= 50  -> 150
                  [] sentiment.score \in 20..49   -> 120
                  [] sentiment.score \in -20..19  -> 100
                  [] sentiment.score \in -50..-21 -> 70
                  [] sentiment.score < -50 -> 30
    IN  IF sentiment.trending THEN (base * 11) \div 10 ELSE base

\* x clamped to lower..upper, the lower bound applied last.
Clamp(x, lower, upper) == Max(lower, Min(upper, x))

C26_SummaryIsPureRead ==
    [][ /\ op' = "get_performance_summary" =>
              UNCHANGED <<capital, initial_capital, trade_history, store>>
        /\ op' # "init" =>
              /\ Len(trade_history') >= Len(trade_history)
              /\ SubSeq(trade_history', 1, Len(trade_history)) = trade_history
              /\ (trade_history' # trade_history \/ capital' # capital) =>
                     op' = "execute_simulation"
      ]_vars

\* The summary of a ledger of two trades whose capital is not the sum of the
\* rounded profits.
C26_Witness ==
    /\ op = "get_performance_summary"
    /\ result = "summary"
    /\ Len(trade_history) = 2
    /\ capital # initial_capital + SumNet(trade_history)

\* The least spread that is viable: 12.50 -> 12.65 is 1.2 gross, 0.8 net.
AtThreshold ==
    find_opportunity("solana", <<[ex |-> "binance", price |-> 1250],
                                 [ex |-> "coinbase", price |-> 1265]>>)[1]

\* C29 as stated: there are a viable opportunity and a ledger state for which
\* execute_simulation computes net_profit < 0.
C29_LossReachable ==
    \E o \in Opportunities \cup {AtThreshold}, s \in Sentiments,
       cap \in {capital, sim_capital_usd, 10 * MoneyScale, 1} :
        /\ ~Rejected(o, cap)
        /\ Settle(cap, o, s).net_profit < 0

\* C29 with the arithmetic of lines 113-127: with a fee of 0.2 and a
\* threshold of 0.8 a viable opportunity has a gross spread of at least 1.2,
\* and every trade settled on it has net_profit > 0: current_capital after
\* the trade is higher than before it.
C29_ViableTradeGains ==
    /\ Settled =>
            /\ call.viable
            /\ call.net_profit > 0
            /\ capital = call.capital + call.net_profit
            /\ capital > call.capital
    /\ AtThreshold.is_viable /\ AtThreshold.net_spread_pct = arbitrage_threshold_pct
    /\ (ctor = "ok" /\ capital > 0) =>
            \A s \in Sentiments : Settle(capital, AtThreshold, s).net_profit > 0

\* The smallest trade: 10 USD deployed from a capital of 5 USD left by a loss
\* recorded in the trade file.
C29_Witness ==
    /\ Settled
    /\ call.capital_used = 10 * MoneyScale
    /\ call.capital = 5 * MoneyScale
    /\ call.net_profit > 0

----------------------------------------------------------------------------
(* Claims about the control loop, checked under BotSpec *)

\* C4: under every interleaving of start, stop and status requests at most
\* one thread runs the control loop, so at most one execute_simulation call
\* is in flight on the ledger.
C4_SingleLoopThread ==
    /\ Cardinality({t \in Threads : thr[t].pc \in LoopPcs}) <= 1
    /\ Cardinality({t \in Threads : thr[t].pc = "simulate"}) <= 1

\* The iteration of a further coin begins in thread t.
BeginsIteration(t) == thr'[t].pc = "iter" /\ thr'[t].coin # thr[t].coin

\* C10: once a stop has been requested during a running cycle, the loop
\* begins no further per-coin iteration of that cycle.
C10_StopAtCoinBoundary ==
    [][ \A t \in Threads : thr[t].stopped => ~BeginsIteration(t) ]_vars

\* C10 as amended: the flag is read only at the while test between cycles;
\* no cycle begins while the flag is False, and a thread that finds it False
\* there ends.
C10_StopAtCycleBoundary ==
    [][ \A t \in Threads :
          /\ (thr'[t].pc = "cycle" /\ thr[t].pc # "cycle") => running
          /\ (thr[t].pc = "while" /\ ~running /\ thr'[t] # thr[t]) =>
                 thr'[t].pc = "final" ]_vars

\* A thread stopped in the middle of a cycle has left the loop.
C10_Witness ==
    \E t \in Threads : thr[t].pc = "final" /\ thr[t].stopped

----------------------------------------------------------------------------
(* Claims about _safe_get, checked under FetchSpec *)

\* C5: every two consecutive outbound HTTP requests of one PriceFetcher are
\* separated by at least min_call_interval.
C5_Throttle == last_gap = Never \/ last_gap >= min_call_interval

\* C6: one fetch call issues at most max_retries requests, never raises, can
\* always go on until it returns, and returns None (the caller: an empty
\* result) when no request succeeded.
C6_BoundedRetry ==
    /\ sg.nreq <= sg.max_retries
    /\ sg.attempt <= sg.max_retries
    /\ ret.safe_get # "raised" /\ ret.api # "raised"
    /\ sg.pc # "idle" => ENABLED (SafeGetRequest \/ SafeGetBackoff \/ SafeGetGiveUp)
    /\ (sg.pc = "idle" /\ ret.safe_get # "none" /\ ~sg.ok) =>
           /\ ret.safe_get = "None"
           /\ ret.api = IF ret.fn = "get_price_simple" THEN "{}" ELSE "[]"

\* get_price_simple gave up after max_retries requests.
C6_Witness ==
    /\ sg.pc = "idle"
    /\ ret.fn = "get_price_simple"
    /\ ret.safe_get = "None"
    /\ ret.api = "{}"
    /\ sg.nreq = max_retries

\* C20: a backoff after a 429 at attempt k lasts 15 * 2^k seconds, a backoff
\* after any other error 5 * 2^k seconds, whatever happened before; every
\* call starts at attempt 0.
C20_BackoffByClassAndAttempt ==
    [][ /\ sg'.pc = "backoff" =>
              /\ sg'.attempt \in 0..(sg'.max_retries - 1)
              /\ sg'.wait = (IF sg'.err = "429" THEN 15 ELSE 5) * (2 ^ sg'.attempt)
        /\ (sg.pc = "idle" /\ sg'.pc # "idle") => sg'.attempt = 0
      ]_vars

\* 15 and 30 seconds were waited; the third 429 is followed by 60.
C20_Witness ==
    /\ sg.pc = "backoff"
    /\ sg.err = "429"
    /\ sg.attempt = 2
    /\ sg.wait = 60

\* A second call, after a call that failed throughout, backs off 5 seconds
\* after the first error.
C20_WitnessNextCall ==
    /\ ret.safe_get = "pending"
    /\ last_gap # Never
    /\ sg.pc = "backoff"
    /\ sg.err = "network_error"
    /\ sg.attempt = 0
    /\ sg.wait = 5

\* C21: every backoff sleep of a fetch call is followed by another attempt;
\* the call never sleeps after its final attempt.
C21_SleepThenRetry == sg.pc = "backoff" => sg.attempt + 1 < sg.max_retries

----------------------------------------------------------------------------
(* Claims about get_all_exchange_prices, checked under PriceSpec *)

Abs(x) == IF x < 0 THEN -x ELSE x

\* The map has one price per configured exchange, in the order of the
\* configuration, each satisfying Near(price).
OnePerExchange(pm, Near(_)) ==
    /\ Len(pm) = Len(exchanges)
    /\ \A i \in 1..Len(pm) : pm[i].ex = exchanges[i] /\ Near(pm[i].price)

\* 1000 * price lies between base * 985 and base * 1015.
WithinJitter(price, base) == Abs(price - base) * 1000 <= 15 * base

\* The first clause of C17: the fetch leaves the page loop for the
\* synthesis exactly when fewer than 2 configured exchanges have a real quote.
DegradedWhenFewReal ==
    pf.pc = "paged" =>
        IF Len(pf.prices) < 2
        THEN pf'.pc = "simulate" /\ quotes' = <<>>
        ELSE pf'.pc = "idle" /\ prov' = "real" /\ Len(quotes') = Len(pf.prices)

\* C17 as stated: whenever fewer than 2 configured exchanges yield a real
\* quote, the fetch returns one price per configured exchange, each equal to
\* base_price * (1 + u) for some u in [-0.015, 0.015], all on one base price.
C17_SyntheticIsBaseTimesJitter ==
    [][ /\ DegradedWhenFewReal
        /\ pf.pc = "simulate" =>
              LET Near(price) == WithinJitter(price, pf'.base)
              IN  prov' \in {"synthetic", "last_resort"} /\ OnePerExchange(quotes', Near)
      ]_vars

\* C17 with the rounding of line 324: whenever fewer than 2 configured
\* exchanges yield a real quote, the fetch returns one price per configured
\* exchange, each equal to base_price * (1 + u) rounded to cents for some u
\* in [-0.015, 0.015], all on one base price.
C17_SyntheticIsRoundedJitter ==
    [][ /\ DegradedWhenFewReal
        /\ pf.pc = "simulate" =>
              LET Near(price) == \E u \in Jitters : price = Simulated(pf'.base, u)
              IN  prov' \in {"synthetic", "last_resort"} /\ OnePerExchange(quotes', Near)
      ]_vars

\* A synthetic map on the base price 1.30 the API gave, three different
\* prices, the least of them 1.28.
C17_Witness ==
    /\ prov = "synthetic"
    /\ pf.base = 130
    /\ Len(quotes) = 3
    /\ quotes[1].price = 128
    /\ quotes[2].price # quotes[1].price
    /\ quotes[3].price \notin {quotes[1].price, quotes[2].price}

\* The reference prices of the claim, in cents.
Reference(coin_id) ==
    CASE coin_id = "bitcoin"     -> 68000 * 100
      [] coin_id = "ethereum"    -> 2000 * 100
      [] coin_id = "solana"      -> 85 * 100
      [] coin_id = "binancecoin" -> 620 * 100
      [] coin_id = "ripple"      -> 140
      [] OTHER                   -> 100 * 100

\* C18: when the API gives no base price (no reply, the coin or its price
\* missing, or a price of zero) the synthesis uses the hardcoded reference
\* price of the coin, 100.0 for an unknown coin, and the fetch returns a map.
C18_LastResortReference ==
    (pf.pc = "idle" /\ prov \in {"synthetic", "last_resort"}) =>
        IF pf.from_api \in {None, 0}
        THEN /\ prov = "last_resort"
             /\ pf.base = Reference(pf.coin)
             /\ Len(quotes) = Len(exchanges)
        ELSE prov = "synthetic" /\ pf.base = pf.from_api

\* Bitcoin priced at zero by the API: synthesis on 68000.
C18_Witness ==
    /\ prov = "last_resort"
    /\ pf.coin = "bitcoin"
    /\ pf.from_api = 0
    /\ \E i \in 1..Len(quotes) : quotes[i].price = 6902000

\* The feed signals that no page follows: no reply, an empty page, or a
\* short page without has_more.
NoFurtherPages(data) ==
    data = NoData \/ data.count = 0 \/ (~data.has_more /\ data.count < 100)

AllTargetsQuoted(prices) == \A id \in target_ids : \E i \in 1..Len(prices) : prices[i].ex = id

\* C19: the page loop requests at most 5 pages and every turn either
\* requests the next page or ends the loop; it ends as soon as all target
\* exchanges have a quote, or the feed signals no further pages, or 5 pages
\* were requested, and it requests a further page only when none of these holds.
C19_PageLoopBounded ==
    [][ pf.pc = "paging" =>
          /\ pf.page <= 5
          /\ pf'.pc \in {"paging", "paged"}
          /\ pf'.pc = "paging" =>
                /\ pf'.page = pf.page + 1
                /\ pf'.page <= 5
                /\ ~AllTargetsQuoted(pf'.prices)
                /\ ~NoFurtherPages(pf'.last)
          /\ pf'.pc = "paged" =>
                /\ pf'.page = pf.page
                /\ \/ AllTargetsQuoted(pf'.prices)
                   \/ NoFurtherPages(pf'.last)
                   \/ pf'.page = 5
      ]_vars

\* The fifth page was full and the targets are not all quoted: the cap ends
\* the loop.
C19_Witness ==
    /\ pf.pc = "paged"
    /\ pf.page = 5
    /\ ~AllTargetsQuoted(pf.prices)
    /\ ~NoFurtherPages(pf.last)

\* C9: a price map returned through the synthetic or last-resort path is
\* never identical to a map returned from real quotes.
C9_ProvenanceObservable ==
    (prov \in {"synthetic", "last_resort"} /\ real_seen # <<>>) =>
        Items(quotes) # Items(real_seen)

----------------------------------------------------------------------------
(* Claims about the detector, checked under DetectorSpec *)

Prices(pm) == { pm[i].price : i \in 1..Len(pm) }

\* The first quote of pm at price p.
FirstAt(pm, p) == pm[CHOOSE i \in 1..Len(pm) :
                        pm[i].price = p /\ \A j \in 1..(i - 1) : pm[j].price # p].ex

Found == det.fn = "find_opportunity" /\ det_out # <<>>

\* C11: for every opportunity find_opportunity returns, is_viable is true
\* exactly when the reported net_spread_pct is at least
\* arbitrage_threshold_pct.
C11_ViableIffNetAtLeastThreshold ==
    Found => (det_out[1].is_viable <=> det_out[1].net_spread_pct >= arbitrage_threshold_pct)

C13_NoneIffFlatOrShort ==
    det.fn = "find_opportunity" =>
        /\ det_out = <<>> <=> (Len(det.arg) < 2 \/ Cardinality(Prices(det.arg)) <= 1)
        /\ det_out # <<>> =>
              /\ det_out[1].buy_exchange # det_out[1].sell_exchange
              /\ det_out[1].buy_price < det_out[1].sell_price

\* Three quotes at one price: no opportunity.
C13_Witness ==
    /\ det.fn = "find_opportunity"
    /\ Len(det.arg) = 3
    /\ Cardinality(Prices(det.arg)) = 1
    /\ det_out = <<>>

ViableCoins(all_prices) ==
    { all_prices[i].coin : i \in { k \in 1..Len(all_prices) :
        LET opp == find_opportunity(all_prices[k].coin, all_prices[k].prices)
        IN  opp # <<>> /\ opp[1].is_viable } }

\* C14: scan_all_coins returns a list sorted by net_spread_pct descending,
\* holding exactly one entry for each coin whose opportunity is viable and
\* none for a non-viable, single-exchange or empty coin.
C14_ScanSortedViableOnly ==
    det.fn = "scan_all_coins" =>
        /\ \A i \in 1..(Len(det_out) - 1) :
              det_out[i].net_spread_pct >= det_out[i + 1].net_spread_pct
        /\ { det_out[i].coin : i \in 1..Len(det_out) } = ViableCoins(det.arg)
        /\ Len(det_out) = Cardinality(ViableCoins(det.arg))
        /\ \A i \in 1..Len(det_out) : det_out[i].is_viable

\* A snapshot whose coins come in ascending order of net spread, next to an
\* empty coin: two entries, reordered.
C14_Witness ==
    /\ det.fn = "scan_all_coins"
    /\ Len(det_out) = 2
    /\ det.arg[1].prices = <<>>
    /\ det_out[1].coin = det.arg[3].coin
    /\ det_out[1].net_spread_pct > det_out[2].net_spread_pct

\* C15: the reported fields of every opportunity satisfy
\* net_spread_pct = gross_spread_pct - 2 * estimated_fee_pct.
C15_NetIsGrossMinusFees ==
    Found => det_out[1].net_spread_pct =
                 det_out[1].gross_spread_pct - 2 * estimated_fee_pct

\* An opportunity whose spreads were rounded, net of fees below the threshold.
C15_Witness ==
    /\ Found
    /\ ~det_out[1].is_viable
    /\ SpreadPct(det_out[1].sell_price - det_out[1].buy_price, det_out[1].buy_price)
          # det_out[1].gross_spread_pct

\* C30: get_all_exchange_prices returns a map of at least 2 exchanges for
\* every coin, whatever the API replied.
C30_AtLeastTwoQuotes ==
    (pf.pc = "idle" /\ prov # "none") =>
        /\ Len(quotes) >= 2
        /\ Cardinality(Keys(quotes)) = Len(quotes)
        /\ \A i \in 1..Len(quotes) : quotes[i].price > 0

\* Total outage for a coin unknown to the fallback table.
C30_Witness ==
    /\ pf.pc = "idle"
    /\ prov = "last_resort"
    /\ pf.coin = "dogecoin"
    /\ pf.from_api = None
    /\ Len(quotes) = Len(exchanges)

----------------------------------------------------------------------------
(* Claims about _sentiment_to_risk, checked under RiskSpec *)

\* C23: the multiplier is 1.5 for score >= 0.5, 1.2 on [0.2, 0.5), 1.0 on
\* [-0.2, 0.2), 0.7 on [-0.5, -0.2) and 0.3 below -0.5, so that the scores
\* 0.5, 0.2, -0.2 and -0.5 give 1.5, 1.2, 1.0 and 0.7; it is multiplied by
\* 1.1 exactly when the sentiment is trending.
C23_RiskIsPiecewise ==
    risk # NoRisk =>
        /\ risk.multiplier = RiskOf(risk.sentiment)
        /\ ~risk.sentiment.trending =>
               /\ risk.sentiment.score = 50 => risk.multiplier = 150
               /\ risk.sentiment.score = 20 => risk.multiplier = 120
               /\ risk.sentiment.score = -20 => risk.multiplier = 100
               /\ risk.sentiment.score = -50 => risk.multiplier = 70
               /\ risk.sentiment.score = -51 => risk.multiplier = 30
               /\ risk.multiplier \in {150, 120, 100, 70, 30}
        /\ risk.sentiment.trending =>
               risk.multiplier =
                   (_sentiment_to_risk([risk.sentiment EXCEPT !.trending = FALSE]) * 11)
                       \div 10

\* The boundary score -0.5 while trending: 0.7 * 1.1.
C23_Witness ==
    /\ risk.sentiment = [score |-> -50, trending |-> TRUE]
    /\ risk.multiplier = 77

----------------------------------------------------------------------------
(* Claims about _run_cycle, checked under RunCycleSpec *)

Event(k) == cyc.events[k]

\* The coins of the cycle in progress that were handled so far.
Handled == 1..Len(cyc.events)

\* C27: a coin absent from the simple-price result gets no exchange-price
\* fetch, no detection and no trade, and the ledger is unchanged by it; the
\* loop goes on to the remaining coins, every one of which is handled in
\* TRADING.coins order, and the next cycle handles the coin again, fetching
\* for it when it has data.
C27_NoDataMeansSkip ==
    [][ /\ (cyc.pc = "coins" /\ cyc'.pc = "idle") => Len(cyc.events) = NumCoins
        /\ (cyc.pc = "coins" /\ cyc'.pc = "coins") =>
            LET k == Len(cyc'.events)
                e == cyc'.events[k]
            IN  /\ k = Len(cyc.events) + 1
                /\ cyc'.i = k + 1
                /\ e.coin = TradingCoins[k]
                /\ e.fetched <=> e.coin \in cyc.simple_prices
                /\ ~e.fetched =>
                      /\ ~e.detected /\ ~e.traded
                      /\ UNCHANGED ledger_vars
                /\ e.traded <=> trade_history' # trade_history
                /\ e.coin \in cyc.skipped_before =>
                      (e.fetched <=> e.coin \in cyc.simple_prices)
      ]_vars

\* The first coin was skipped in one cycle, the second coin was traded after
\* it, and the next cycle traded the first coin.
C27_Witness ==
    /\ cyc.n = 2
    /\ TradingCoins[1] \in cyc.skipped_before
    /\ Len(cyc.events) >= 1
    /\ Event(1).traded
    /\ Len(trade_history) = 2
    /\ trade_history[1].coin = TradingCoins[2]
    /\ trade_history[2].coin = TradingCoins[1]

\* C28: the trades settled within one cycle have non-increasing net spread.
C28_RankedOrder ==
    \A j, k \in Handled :
        (j < k /\ Event(j).traded /\ Event(k).traded) =>
            Event(j).net_spread_pct >= Event(k).net_spread_pct

====
